---- MODULE Spec2Model ----
(***************************************************************************)
(* Catination push server (src/server.js, first program: lines 1-450;     *)
(* the listener of its second program, with shutdown, is further down).    *)
(* A lead-notification relay: an SSE client (startSSE) reads frames from   *)
(* an upstream stream, handleLeadEvent deduplicates by leadId over a short *)
(* TTL (recentLeads), resolves the tenant's target tokens from the Token   *)
(* collection and sendPushToTokens multicasts to them in batches of 500.   *)
(*                                                                         *)
(* JavaScript runs one task at a time: every action below is the code      *)
(* between two awaits (or a timer callback), executed atomically.          *)
(***************************************************************************)
EXTENDS Integers, Sequences, FiniteSets, TLC

(***************************************************************************)
(* State.                                                                  *)
(***************************************************************************)
VARIABLES
  now,            \* Date.now()
  recentLeads,    \* Map leadId -> timestamp(ms), a function on its keys
  nextSweep,      \* when the setInterval sweep is next due
  markedAt,       \* history: key -> time of the last recentLeads.set (0: never)
  lastLookup      \* history: the last direct lookup <<key, result, time>>

dedupVars == <<now, recentLeads, nextSweep, markedAt, lastLookup>>

VARIABLES
  store,          \* the Token collection, in natural (insertion) order
  resolved        \* the targets of the last direct resolution

storeVars == <<store, resolved>>

VARIABLES
  dPc,            \* "idle" | "send" (awaiting sendEachForMulticast) | "done"
  batches,        \* chunkArray(normalized, 500)
  bi,             \* index of the batch whose send is awaited
  calls,          \* history: the tokens of every multicast call issued
  responses,      \* history: per call, the response array or <<"throw">>
  deletes,        \* history: the token of every Token.deleteOne issued
  pending,        \* the tokens of the deleteOne requests not yet settled
  dTokens         \* the token list of a direct call

dispatchVars == <<dPc, batches, bi, calls, responses, deletes, pending, dTokens>>

VARIABLES
  sseUrl,         \* whether SSE_URL is configured
  sseRunning,     \* the single-flight flag
  reconnectDelay, \* in 1/DelayScale ms
  ssePc,          \* where startSSE is suspended: "idle" | "fetch" | "read" |
                  \*   "find" | "send" (the last two inside handleLeadEvent)
  timers,         \* the delays of the pending setTimeout(startSSE, d)
  buffer,         \* the accumulation buffer of the read loop
  hData,          \* the event handleLeadEvent is suspended on
  hFrame,         \* history: the frame (eventChunk) that event was parsed from
  conns,          \* history: startSSE invocations past the guard, not yet closed
  fails,          \* history: closes since the last successful connect
  lastEnd,        \* history: how the last connection ended
  reads,          \* history: chunks read so far
  log             \* history: what the handler did, as a set of [op, lead]

sseVars == <<sseUrl, sseRunning, reconnectDelay, ssePc, timers, buffer, hData, hFrame,
             conns, fails, lastEnd, reads, log>>

VARIABLES
  whole,          \* the characters the stream will deliver
  input,          \* those not yet read
  frames,         \* history: the frames cut so far
  cuts            \* history: the positions of whole after which a chunk ended

parseVars == <<whole, input, frames, cuts>>

VARIABLES
  ctl,            \* sseAbortController: "none" | "live" | "aborted"
  stopping,       \* shutdown() has been called
  exited,         \* process.exit has run
  late            \* history: what happened after shutdown() was called, a subset
                  \*   of {"timer", "attempt"}

stopVars == <<ctl, stopping, exited, late>>

VARIABLES
  bg,             \* the background upserts of /register-token not yet settled:
                  \*   [pc, payload], pc "immediate" (queued by setImmediate) or
                  \*   "update" (Token.updateOne awaited)
  lo,             \* the /logout-token requests whose handler is suspended:
                  \*   [pc, userId, token], pc "one" (updateOne awaited) or
                  \*   "many" (updateMany awaited)
  loggedOut,      \* history: the tokens whose /logout-token request has been
                  \*   answered, no /register-token for them received since
  requests        \* history: the number of requests received

httpVars == <<bg, lo, loggedOut, requests>>

vars == <<dedupVars, storeVars, dispatchVars, sseVars, parseVars, stopVars, httpVars>>

(***************************************************************************)
(* JavaScript values that reach the dedup helpers: a string, a number      *)
(* (held by its decimal rendering) or undefined.                           *)
(***************************************************************************)
Absent == [t |-> "undef", v |-> ""]
Str(s) == [t |-> "str", v |-> s]
Num(s) == [t |-> "num", v |-> s]

\* JavaScript truthiness: undefined, "" and 0 are falsy.
Truthy(x) == \/ x.t = "str" /\ x.v # ""
             \/ x.t = "num" /\ x.v # "0"

\* String(x)
JsString(x) == IF x.t = "undef" THEN "undefined" ELSE x.v

(***************************************************************************)
(* Time.  Date.now() is `now`, in milliseconds since an arbitrary positive *)
(* origin; the clock advances in steps of ClockStep.                       *)
(***************************************************************************)
ClockStep == 10000
MaxTicks == 7
RECENT_LEAD_TTL == 20 * 1000
SweepInterval == 30000

LeadKeys == {"7", "L2"}
LeadIdValues == {Absent, Str(""), Num("0"), Str("7"), Num("7"), Str("L2")}

\* Map.prototype.set / delete on a function
MapSet(m, k, v) == [x \in DOMAIN m \cup {k} |-> IF x = k THEN v ELSE m[x]]
MapDelete(m, k) == [x \in DOMAIN m \ {k} |-> m[x]]

\* markLeadProcessed with the guard of line 114 inverted
MarkLeadProcessedInverted(m, leadId, t) ==
  IF Truthy(leadId) THEN m ELSE MapSet(m, JsString(leadId), t)

\* markLeadProcessed(leadId): the map afterwards
MarkLeadProcessed(m, leadId, t) ==
  IF ~Truthy(leadId) THEN m ELSE MapSet(m, JsString(leadId), t)

\* line 122 with <= for <
WithinTTLInclusive(t, ts) == t - ts <= RECENT_LEAD_TTL

\* the comparison of line 122
WithinTTL(t, ts) == t - ts < RECENT_LEAD_TTL

\* isLeadRecentlyProcessed(leadId): the value returned
IsLeadRecentlyProcessed(m, leadId, t) ==
  IF ~Truthy(leadId) THEN FALSE
  ELSE LET k == JsString(leadId) IN
       IF k \notin DOMAIN m THEN FALSE
       ELSE IF m[k] = 0 THEN FALSE
       ELSE WithinTTL(t, m[k])

\* a lookup that leaves an expired entry in the map
RecentAfterLookupKeep(m, leadId, t) == m

\* a lookup that refreshes the timestamp of an entry it finds within the TTL
RecentAfterLookupTouch(m, leadId, t) ==
  IF ~Truthy(leadId) THEN m
  ELSE LET k == JsString(leadId) IN
       IF k \notin DOMAIN m THEN m
       ELSE IF m[k] = 0 THEN m
       ELSE IF WithinTTL(t, m[k]) THEN MapSet(m, k, t)
       ELSE MapDelete(m, k)

\* isLeadRecentlyProcessed(leadId): the map afterwards (an expired entry is deleted)
RecentAfterLookup(m, leadId, t) ==
  IF ~Truthy(leadId) THEN m
  ELSE LET k == JsString(leadId) IN
       IF k \notin DOMAIN m THEN m
       ELSE IF m[k] = 0 THEN m
       ELSE IF WithinTTL(t, m[k]) THEN m
       ELSE MapDelete(m, k)

\* a sweep that compares the age in milliseconds with a TTL taken in seconds
SweepMapSeconds(m, t) ==
  LET keep == {k \in DOMAIN m : ~(t - m[k] > RECENT_LEAD_TTL * 1000)}
  IN [k \in keep |-> m[k]]

\* a sweep that empties the map
SweepMapClear(m, t) == << >>

\* the setInterval callback: the map afterwards
SweepMap(m, t) ==
  LET keep == {k \in DOMAIN m : ~(t - m[k] > RECENT_LEAD_TTL)}
  IN [k \in keep |-> m[k]]

NoteMark(h, leadId, t) ==
  IF Truthy(leadId) THEN [h EXCEPT ![JsString(leadId)] = t] ELSE h

DedupInit ==
  /\ now = ClockStep
  /\ recentLeads = << >>
  /\ nextSweep = ClockStep + SweepInterval
  /\ markedAt = [k \in LeadKeys |-> 0]
  /\ lastLookup = << >>

\* time passes; a due sweep runs before the clock moves on
Tick ==
  /\ now < ClockStep * MaxTicks
  /\ now < nextSweep
  /\ now' = now + ClockStep
  /\ UNCHANGED <<recentLeads, nextSweep, markedAt, lastLookup>>
  /\ UNCHANGED <<storeVars, dispatchVars, sseVars, parseVars, stopVars, httpVars>>

Sweep ==
  /\ now >= nextSweep
  /\ recentLeads' = SweepMap(recentLeads, now)
  /\ nextSweep' = nextSweep + SweepInterval
  /\ UNCHANGED <<now, markedAt, lastLookup>>
  /\ UNCHANGED <<storeVars, dispatchVars, sseVars, parseVars, stopVars, httpVars>>

\* a direct call of isLeadRecentlyProcessed(leadId)
DLookup(leadId) ==
  /\ lastLookup' = <<leadId, IsLeadRecentlyProcessed(recentLeads, leadId, now), now>>
  /\ recentLeads' = RecentAfterLookup(recentLeads, leadId, now)
  /\ UNCHANGED <<now, nextSweep, markedAt>>
  /\ UNCHANGED <<storeVars, dispatchVars, sseVars, parseVars, stopVars, httpVars>>

\* a direct call of markLeadProcessed(leadId)
DMark(leadId) ==
  /\ recentLeads' = MarkLeadProcessed(recentLeads, leadId, now)
  /\ markedAt' = NoteMark(markedAt, leadId, now)
  /\ lastLookup' = << >>
  /\ UNCHANGED <<now, nextSweep>>
  /\ UNCHANGED <<storeVars, dispatchVars, sseVars, parseVars, stopVars, httpVars>>

(***************************************************************************)
(* The Token collection and target selection (handleLeadEvent 264-281).    *)
(* A token is held by a natural number; 0 is the empty (falsy) token.      *)
(***************************************************************************)
Roles == {"ADMIN", "EMPLOYEE", "MANAGER"}
Experiences == {"0", "1"}
Tenants == {"T1", "T2"}

\* Token.find({ companyId, enabled: true }).lean()
TokenFind(docs, companyId) ==
  SelectSeq(docs, LAMBDA d : d.companyId = companyId /\ d.enabled)

\* the role rule without the roleExperience test
EligibleAnyEmployee(d) == d.role \in {"ADMIN", "EMPLOYEE"}

\* the role rule of lines 276-278
Eligible(d) ==
  \/ d.role = "ADMIN"
  \/ d.role = "EMPLOYEE" /\ d.roleExperience = "1"

\* Array.from(new Set(xs)): first occurrences, in order
UniqueInOrder(xs) ==
  LET idx == [i \in 1..Len(xs) |-> i]
      firsts == SelectSeq(idx, LAMBDA i : \A j \in 1..(i - 1) : xs[j] # xs[i])
  IN [k \in 1..Len(firsts) |-> xs[firsts[k]]]

\* lines 271-281: tokenSet built by forEach, then Array.from(tokenSet).filter(Boolean)
TargetsOf(allTokens) ==
  LET added == SelectSeq(allTokens, LAMBDA d : d.token # 0 /\ Eligible(d))
      toks == [i \in 1..Len(added) |-> added[i].token]
  IN SelectSeq(UniqueInOrder(toks), LAMBDA t : t # 0)

\* the set of elements of a sequence
Range(s) == {s[i] : i \in DOMAIN s}

(***************************************************************************)
(* sendPushToTokens (140-238): normalisation, batching, per-batch send.    *)
(***************************************************************************)
BatchSize == 500

Min(a, b) == IF a < b THEN a ELSE b

\* chunkArray with arr.slice(i, i + size - 1)
ChunkArrayShort(arr, size) ==
  LET starts == {i \in 0..(Len(arr) - 1) : i % size = 0}
  IN [b \in 1..Cardinality(starts) |->
        SubSeq(arr, (b - 1) * size + 1, Min((b - 1) * size + size - 1, Len(arr)))]

\* chunkArray(arr, size)
ChunkArray(arr, size) ==
  LET starts == {i \in 0..(Len(arr) - 1) : i % size = 0}
  IN [b \in 1..Cardinality(starts) |->
        SubSeq(arr, (b - 1) * size + 1, Min((b - 1) * size + size, Len(arr)))]

\* line 142 without the Set: falsy entries dropped, repeats kept
NormalizeNoDedup(tokens) == SelectSeq(tokens, LAMBDA t : t # 0)

\* line 142: Array.from(new Set((tokens || []).filter(Boolean)))
Normalize(tokens) == UniqueInOrder(SelectSeq(tokens, LAMBDA t : t # 0))

\* provider error classifications of one recipient
Classes == {"ok", "invalid", "unregistered", "other"}

\* cleanup on any failure, whatever its classification
NeedsCleanupAny(c) == c # "ok"

\* lines 224-227: the classifications that trigger Token.deleteOne
NeedsCleanup(c) == c \in {"invalid", "unregistered"}

\* lines 217-233: the tokens deleteOne is issued for, in index order
CleanupOf(batch, resp) ==
  LET idx == [i \in 1..Len(resp) |-> i]
      bad == SelectSeq(idx, LAMBDA i : NeedsCleanup(resp[i]))
  IN [k \in 1..Len(bad) |-> batch[bad[k]]]

DispatchIdle ==
  /\ dPc = "idle"
  /\ batches = << >>
  /\ bi = 0
  /\ calls = << >>
  /\ responses = << >>
  /\ deletes = << >>
  /\ pending = << >>

\* sendPushToTokens up to its first await (lines 142-210)
SendStart(tokens) ==
  LET normalized == Normalize(tokens) IN
  IF normalized = << >>
  THEN /\ dPc' = "done"
       /\ batches' = << >>
       /\ bi' = 0
       /\ UNCHANGED <<calls, responses, deletes, pending, dTokens>>
  ELSE /\ dPc' = "send"
       /\ batches' = ChunkArray(normalized, BatchSize)
       /\ bi' = 1
       /\ calls' = Append(calls, batches'[1])
       /\ UNCHANGED <<responses, deletes, pending, dTokens>>

\* the response arrays considered for a batch of n tokens: any classification
\* at the first and at the last index, success elsewhere
ResponsesFor(n) ==
  {[i \in 1..n |-> IF i = 1 THEN c[1] ELSE IF i = n THEN c[2] ELSE "ok"] :
     c \in [1..2 -> Classes]}

\* the loop with one try/catch around it instead of one per batch: a rejected
\* send ends the loop
SendSettledBreak(resp) ==
  /\ dPc = "send"
  /\ responses' = Append(responses, resp)
  /\ LET issued == IF resp = <<"throw">> THEN << >>
                    ELSE CleanupOf(batches[bi], resp)
     IN /\ deletes' = deletes \o issued
        /\ pending' = pending \o issued
  /\ IF bi < Len(batches) /\ resp # <<"throw">>
     THEN /\ bi' = bi + 1
          /\ calls' = Append(calls, batches[bi + 1])
          /\ dPc' = "send"
     ELSE /\ bi' = bi
          /\ calls' = calls
          /\ dPc' = "done"
  /\ UNCHANGED <<batches, dTokens>>

\* the loop body without its try/catch: a rejected send leaves the function
SendSettledNoCatch(resp) ==
  /\ dPc = "send"
  /\ responses' = Append(responses, resp)
  /\ LET issued == IF resp = <<"throw">> THEN << >>
                    ELSE CleanupOf(batches[bi], resp)
     IN /\ deletes' = deletes \o issued
        /\ pending' = pending \o issued
  /\ IF resp = <<"throw">>
     THEN /\ bi' = bi
          /\ calls' = calls
          /\ dPc' = "raised"
     ELSE IF bi < Len(batches)
     THEN /\ bi' = bi + 1
          /\ calls' = Append(calls, batches[bi + 1])
          /\ dPc' = "send"
     ELSE /\ bi' = bi
          /\ calls' = calls
          /\ dPc' = "done"
  /\ UNCHANGED <<batches, dTokens>>

\* the rest of the loop body after the awaited send settles (211-237), and the
\* next iteration up to its await.  resp is <<"throw">> when the send rejected.
SendSettled(resp) ==
  /\ dPc = "send"
  /\ responses' = Append(responses, resp)
  /\ LET issued == IF resp = <<"throw">> THEN << >>
                    ELSE CleanupOf(batches[bi], resp)
     IN /\ deletes' = deletes \o issued
        /\ pending' = pending \o issued
  /\ IF bi < Len(batches)
     THEN /\ bi' = bi + 1
          /\ calls' = Append(calls, batches[bi + 1])
          /\ dPc' = "send"
     ELSE /\ bi' = bi
          /\ calls' = calls
          /\ dPc' = "done"
  /\ UNCHANGED <<batches, dTokens>>

SendOutcomes == {<<"throw">>} \cup ResponsesFor(Len(batches[bi]))

(***************************************************************************)
(* Text.  A string is a sequence of atoms; an atom is one character ("\n", *)
(* " ", "x") or an indivisible run of characters: the field names "data:"  *)
(* and "event:", the word "lead", one JSON object text per element of      *)
(* JsonTexts, and "{bad", a text that opens an object but does not parse.  *)
(***************************************************************************)
NL == "\n"
SP == " "

IsSpace(a) == a \in {NL, SP}

\* buffer.indexOf("\n\n"), 1-based; 0 when absent
IndexOfBlank(s) ==
  LET hits == {i \in 1..(Len(s) - 1) : s[i] = NL /\ s[i + 1] = NL}
  IN IF hits = {} THEN 0 ELSE CHOOSE i \in hits : \A j \in hits : i <= j

\* String.prototype.trim
Trim(s) ==
  LET solid == {i \in 1..Len(s) : ~IsSpace(s[i])}
  IN IF solid = {} THEN << >>
     ELSE SubSeq(s, CHOOSE i \in solid : \A j \in solid : i <= j,
                    CHOOSE i \in solid : \A j \in solid : i >= j)

\* s.split("\n")
RECURSIVE SplitLines(_)
SplitLines(s) ==
  LET nls == {i \in 1..Len(s) : s[i] = NL}
  IN IF nls = {} THEN <<s>>
     ELSE LET i == CHOOSE x \in nls : \A y \in nls : x <= y
          IN <<SubSeq(s, 1, i - 1)>> \o SplitLines(SubSeq(s, i + 1, Len(s)))

\* the JSON object texts that occur on the stream, with the fields the
\* handler reads
JsonTexts == {"{A}", "{B}", "{N}", "{Z}", "{U}", "{E}"}

JsonParse(a) ==
  CASE a = "{A}" -> [leadId |-> Str("7"), tenantId |-> Str("T1"), companyId |-> Absent]
    [] a = "{B}" -> [leadId |-> Num("7"), tenantId |-> Absent, companyId |-> Str("T1")]
    [] a = "{N}" -> [leadId |-> Absent, tenantId |-> Str("T1"), companyId |-> Absent]
    [] a = "{Z}" -> [leadId |-> Str(""), tenantId |-> Str("T1"), companyId |-> Absent]
    [] a = "{U}" -> [leadId |-> Str("7"), tenantId |-> Absent, companyId |-> Absent]
    [] a = "{E}" -> [leadId |-> Str("L2"), tenantId |-> Str("T2"), companyId |-> Absent]

\* line.startsWith("{")
StartsWithBrace(line) == line # << >> /\ line[1] \in JsonTexts \cup {"{bad"}

\* whether JSON.parse(line) returns (it throws otherwise)
JsonParses(line) == Len(line) = 1 /\ line[1] \in JsonTexts

\* lines 342-346: the first line starting with "data:", the prefix replaced
\* by "" and trimmed; << >> when there is none (undefined)
DataLine(eventChunk) ==
  LET ls == SplitLines(eventChunk)
      hits == {i \in 1..Len(ls) : ls[i] # << >> /\ ls[i][1] = "data:"}
  IN IF hits = {} THEN << >>
     ELSE Trim(Tail(ls[CHOOSE i \in hits : \A j \in hits : i <= j]))

\* what is kept in the buffer once a frame was cut at idx (line 338)
RestAfter(buf, idx) == SubSeq(buf, idx + 2, Len(buf))

\* lines 335-340: the frames the inner loop cuts from the buffer (the
\* non-empty trimmed eventChunks), and what stays in the buffer
RECURSIVE CutFrames(_)
CutFrames(buf) ==
  LET idx == IndexOfBlank(buf) IN
  IF idx = 0 THEN [frames |-> << >>, rest |-> buf]
  ELSE LET eventChunk == Trim(SubSeq(buf, 1, idx - 1))
           more == CutFrames(RestAfter(buf, idx))
       IN [frames |-> (IF eventChunk = << >> THEN << >> ELSE <<eventChunk>>)
                        \o more.frames,
           rest |-> more.rest]

(***************************************************************************)
(* The SSE listener (startSSE, 302-367) and handleLeadEvent (245-297).     *)
(* reconnectDelay is a double in the code; here it is a whole number of    *)
(* 1/DelayScale milliseconds, the product with 1.4 rounded down to that    *)
(* unit (the double differs from it by less than 1e-9 ms).                 *)
(***************************************************************************)
DelayScale == 16 * 1000
FloorDelay == 2000 * DelayScale
MAX_DELAY == 60000 * DelayScale
MaxFails == 12
MaxReads == 2

NoData == [leadId |-> Absent, tenantId |-> Absent, companyId |-> Absent]

\* d * 1.4, rounded down to the unit
TimesGrowth(d) == (d \div 5) * 7 + ((d % 5) * 7) \div 5

\* line 365 without the Math.min
GrowDelayUncapped(d) == TimesGrowth(d)

\* line 365: Math.min(reconnectDelay * 1.4, MAX_DELAY)
GrowDelay(d) == Min(TimesGrowth(d), MAX_DELAY)

\* lines 249-251: companyId defaults to tenantId
WithCompany(data) ==
  IF ~Truthy(data.companyId) /\ Truthy(data.tenantId)
  THEN [data EXCEPT !.companyId = data.tenantId]
  ELSE data

\* line 253 left out
UnroutableNever(data) == FALSE

\* line 253: !data.companyId
Unroutable(data) == ~Truthy(data.companyId)

\* line 258 as String(data.leadId), unconditionally
HandlerLeadIdAlways(data) == Str(JsString(data.leadId))

\* line 258: data.leadId ? String(data.leadId) : null
HandlerLeadId(data) ==
  IF Truthy(data.leadId) THEN Str(JsString(data.leadId)) ELSE Absent

Noted(lg, e) == lg \cup {e}

Entry(op, lead) == [op |-> op, lead |-> lead]

\* The read loop from line 335 on, run until it suspends: frames are cut and
\* handled until handleLeadEvent awaits Token.find (pc "find") or no
\* delimiter is left and the loop awaits the next read (pc "read").
RECURSIVE Drain(_, _, _)

\* the loop leaving off at a frame that is not JSON (break for continue): what
\* follows it in the buffer waits for the next read
DrainBreak(buf, m, lg) ==
  LET idx == IndexOfBlank(buf) IN
  IF idx = 0
  THEN [pc |-> "read", buffer |-> buf, recent |-> m, data |-> NoData,
        frame |-> << >>, log |-> lg]
  ELSE
    LET eventChunk == Trim(SubSeq(buf, 1, idx - 1))
        rest == RestAfter(buf, idx)
        line == DataLine(eventChunk)
        stop == [pc |-> "read", buffer |-> rest, recent |-> m, data |-> NoData,
                 frame |-> << >>, log |-> lg]
    IN
    IF eventChunk = << >> THEN Drain(rest, m, lg)
    ELSE IF line = << >> \/ ~StartsWithBrace(line) THEN stop
    ELSE IF ~JsonParses(line) THEN stop
    ELSE
      LET data == WithCompany(JsonParse(line[1]))
          leadId == HandlerLeadId(data)
      IN
      IF Unroutable(data)
      THEN Drain(rest, m, Noted(lg, Entry("unroutable", data.leadId)))
      ELSE IF Truthy(leadId) /\ IsLeadRecentlyProcessed(m, leadId, now)
      THEN Drain(rest, RecentAfterLookup(m, leadId, now),
                 Noted(lg, Entry("dup", data.leadId)))
      ELSE [pc |-> "find", buffer |-> rest,
            recent |-> RecentAfterLookup(m, leadId, now),
            data |-> data, frame |-> eventChunk,
            log |-> Noted(lg, Entry("query", data.leadId))]

Drain(buf, m, lg) ==
  LET idx == IndexOfBlank(buf) IN
  IF idx = 0
  THEN [pc |-> "read", buffer |-> buf, recent |-> m, data |-> NoData,
        frame |-> << >>, log |-> lg]
  ELSE
    LET eventChunk == Trim(SubSeq(buf, 1, idx - 1))
        rest == RestAfter(buf, idx)
        line == DataLine(eventChunk)
    IN
    IF eventChunk = << >> THEN Drain(rest, m, lg)
    ELSE IF line = << >> \/ ~StartsWithBrace(line) THEN Drain(rest, m, lg)
    ELSE IF ~JsonParses(line) THEN Drain(rest, m, lg)
    ELSE
      LET data == WithCompany(JsonParse(line[1]))
          leadId == HandlerLeadId(data)
      IN
      IF Unroutable(data)
      THEN Drain(rest, m, Noted(lg, Entry("unroutable", data.leadId)))
      ELSE IF Truthy(leadId) /\ IsLeadRecentlyProcessed(m, leadId, now)
      THEN Drain(rest, RecentAfterLookup(m, leadId, now),
                 Noted(lg, Entry("dup", data.leadId)))
      ELSE [pc |-> "find", buffer |-> rest,
            recent |-> RecentAfterLookup(m, leadId, now),
            data |-> data, frame |-> eventChunk,
            log |-> Noted(lg, Entry("query", data.leadId))]

\* the loop goes on from the current buffer
Continue(buf, m, lg) ==
  LET d == Drain(buf, m, lg) IN
  /\ ssePc' = d.pc
  /\ buffer' = d.buffer
  /\ recentLeads' = d.recent
  /\ hData' = d.data
  /\ hFrame' = d.frame
  /\ log' = d.log

\* startSSE from its call to the awaited fetch (307-317)
StartSSE ==
  IF ~sseUrl \/ sseRunning
  THEN UNCHANGED <<sseRunning, ssePc, conns>>
  ELSE /\ sseRunning' = TRUE
       /\ ssePc' = "fetch"
       /\ conns' = conns + 1

\* a reconnect timer fires: setTimeout's callback is startSSE
TimerFire ==
  /\ \E i \in DOMAIN timers :
       timers' = SubSeq(timers, 1, i - 1) \o SubSeq(timers, i + 1, Len(timers))
  /\ StartSSE
  /\ UNCHANGED <<sseUrl, reconnectDelay, buffer, hData, hFrame, fails, lastEnd, reads, log>>
  /\ UNCHANGED <<dedupVars, storeVars, dispatchVars, parseVars, stopVars, httpVars>>

\* lines 358-366 with the catch block resetting the flag and retrying at once
\* (sseRunning = false; startSSE()) before falling through to the scheduled retry
CloseSSERetry(cause) ==
  /\ sseRunning' = FALSE
  /\ reconnectDelay' = GrowDelay(reconnectDelay)
  /\ timers' = Append(timers, reconnectDelay')
  /\ ssePc' = "fetch"
  /\ buffer' = << >>
  /\ conns' = conns
  /\ fails' = Min(fails + 1, MaxFails)
  /\ lastEnd' = cause
  /\ UNCHANGED <<sseUrl, hData, hFrame, reads, log>>
  /\ UNCHANGED <<dedupVars, storeVars, dispatchVars, parseVars, stopVars, httpVars>>

\* lines 362-366 moved into the catch block: a clean end of the stream
\* schedules nothing
CloseSSEOnError(cause) ==
  /\ sseRunning' = FALSE
  /\ reconnectDelay' = GrowDelay(reconnectDelay)
  /\ timers' = IF cause = "eof" THEN timers ELSE Append(timers, reconnectDelay')
  /\ ssePc' = "idle"
  /\ buffer' = << >>
  /\ conns' = conns - 1
  /\ fails' = Min(fails + 1, MaxFails)
  /\ lastEnd' = cause
  /\ UNCHANGED <<sseUrl, hData, hFrame, reads, log>>
  /\ UNCHANGED <<dedupVars, storeVars, dispatchVars, parseVars, stopVars, httpVars>>

\* a close that schedules the reconnect both in the catch block and after it
CloseSSETwice(cause) ==
  /\ sseRunning' = FALSE
  /\ reconnectDelay' = GrowDelay(reconnectDelay)
  /\ timers' = timers \o <<reconnectDelay', reconnectDelay'>>
  /\ ssePc' = "idle"
  /\ buffer' = << >>
  /\ conns' = conns - 1
  /\ fails' = Min(fails + 1, MaxFails)
  /\ lastEnd' = cause
  /\ UNCHANGED <<sseUrl, hData, hFrame, reads, log>>
  /\ UNCHANGED <<dedupVars, storeVars, dispatchVars, parseVars, stopVars, httpVars>>

\* a close with the accumulation buffer held outside startSSE: the partial
\* frame outlives the connection
CloseSSEKeepsBuffer(cause) ==
  /\ sseRunning' = FALSE
  /\ reconnectDelay' = GrowDelay(reconnectDelay)
  /\ timers' = Append(timers, reconnectDelay')
  /\ ssePc' = "idle"
  /\ conns' = conns - 1
  /\ fails' = Min(fails + 1, MaxFails)
  /\ lastEnd' = cause
  /\ UNCHANGED <<sseUrl, buffer, hData, hFrame, reads, log>>
  /\ UNCHANGED <<dedupVars, storeVars, dispatchVars, parseVars, stopVars, httpVars>>

\* lines 362-366, reached from the catch block or from the loop's break
CloseSSE(cause) ==
  /\ sseRunning' = FALSE
  /\ reconnectDelay' = GrowDelay(reconnectDelay)
  /\ timers' = Append(timers, reconnectDelay')
  /\ ssePc' = "idle"
  /\ buffer' = << >>
  /\ conns' = conns - 1
  /\ fails' = Min(fails + 1, MaxFails)
  /\ lastEnd' = cause
  /\ UNCHANGED <<sseUrl, hData, hFrame, reads, log>>
  /\ UNCHANGED <<dedupVars, storeVars, dispatchVars, parseVars, stopVars, httpVars>>

\* fetch resolves with res.ok (317-327)
FetchOk ==
  /\ ssePc = "fetch"
  /\ reconnectDelay' = FloorDelay
  /\ buffer' = << >>
  /\ ssePc' = "read"
  /\ fails' = 0
  /\ UNCHANGED <<sseUrl, sseRunning, timers, hData, hFrame, conns, lastEnd, reads, log>>
  /\ UNCHANGED <<dedupVars, storeVars, dispatchVars, parseVars, stopVars, httpVars>>

\* fetch rejects, or resolves with a non-success status (line 319 throws)
FetchFail(cause) ==
  /\ ssePc = "fetch"
  /\ cause \in {"network", "status"}
  /\ CloseSSE(cause)

\* reader.read() resolves with done, or rejects
ReadEnd(cause) ==
  /\ ssePc = "read"
  /\ cause \in {"eof", "readError"}
  /\ CloseSSE(cause)

\* line 333 with = for +=
AppendedReplace(buf, chunk) == chunk

\* line 333: buffer += decoder.decode(value, { stream: true })
Appended(buf, chunk) == buf \o chunk

\* the read loop with handleLeadEvent(json) not awaited: the next chunk is
\* read while the handler is still suspended
ReadChunkEager(chunk) ==
  /\ ssePc \in {"read", "find", "send"}
  /\ reads < MaxReads
  /\ reads' = reads + 1
  /\ Continue(Appended(buffer, chunk), recentLeads, log)
  /\ UNCHANGED <<sseUrl, sseRunning, reconnectDelay, timers, conns, fails, lastEnd>>
  /\ UNCHANGED <<now, nextSweep, markedAt, lastLookup, storeVars, dispatchVars, parseVars, stopVars, httpVars>>

\* reader.read() resolves with a chunk (330-357, up to the next await)
ReadChunk(chunk) ==
  /\ ssePc = "read"
  /\ reads < MaxReads
  /\ reads' = reads + 1
  /\ Continue(Appended(buffer, chunk), recentLeads, log)
  /\ UNCHANGED <<sseUrl, sseRunning, reconnectDelay, timers, conns, fails, lastEnd>>
  /\ UNCHANGED <<now, nextSweep, markedAt, lastLookup, storeVars, dispatchVars, parseVars, stopVars, httpVars>>

\* lines 286 / 293: if (leadId) markLeadProcessed(leadId), then the handler
\* returns and the read loop goes on
MarkAndContinueFrom(lg) ==
  LET leadId == HandlerLeadId(hData) IN
  IF Truthy(leadId)
  THEN /\ markedAt' = NoteMark(markedAt, leadId, now)
       /\ Continue(buffer, MarkLeadProcessed(recentLeads, leadId, now),
                   Noted(lg, Entry("mark", leadId)))
  ELSE /\ markedAt' = markedAt
       /\ Continue(buffer, recentLeads, lg)

MarkAndContinue ==
  MarkAndContinueFrom(log)

\* a handler that marks the lead on its way out of the catch block
HFindFailMarks ==
  /\ ssePc = "find"
  /\ MarkAndContinue
  /\ UNCHANGED <<sseUrl, sseRunning, reconnectDelay, timers, conns, fails, lastEnd, reads>>
  /\ UNCHANGED <<now, nextSweep, lastLookup, storeVars, dispatchVars, parseVars, stopVars, httpVars>>

\* Token.find rejects: the handler's catch logs and returns (294-296)
HFindFail ==
  /\ ssePc = "find"
  /\ Continue(buffer, recentLeads, log)
  /\ UNCHANGED <<sseUrl, sseRunning, reconnectDelay, timers, conns, fails, lastEnd, reads>>
  /\ UNCHANGED <<now, nextSweep, markedAt, lastLookup, storeVars, dispatchVars, parseVars, stopVars, httpVars>>

\* lines 285-288 as written with a bare return: the lead is not marked
HFindDoneNoMark ==
  /\ ssePc = "find"
  /\ LET targets == TargetsOf(TokenFind(store, JsString(hData.companyId))) IN
     IF targets = << >>
     THEN /\ markedAt' = markedAt
          /\ Continue(buffer, recentLeads, Noted(log, Entry("noop", hData.leadId)))
          /\ UNCHANGED dispatchVars
     ELSE /\ SendStart(targets)
          /\ IF dPc' = "done"
             THEN MarkAndContinue
             ELSE /\ ssePc' = "send"
                  /\ log' = Noted(log, Entry("send", hData.leadId))
                  /\ UNCHANGED <<buffer, hData, hFrame, recentLeads, markedAt>>
  /\ UNCHANGED <<sseUrl, sseRunning, reconnectDelay, timers, conns, fails, lastEnd, reads>>
  /\ UNCHANGED <<now, nextSweep, lastLookup, storeVars, parseVars, stopVars, httpVars>>

\* Token.find resolves (265-290, up to the first awaited send); the log notes
\* "noop" when the target list is empty (285-288)
HFindDone ==
  /\ ssePc = "find"
  /\ LET targets == TargetsOf(TokenFind(store, JsString(hData.companyId))) IN
     IF targets = << >>
     THEN /\ MarkAndContinueFrom(Noted(log, Entry("noop", hData.leadId)))
          /\ UNCHANGED dispatchVars
     ELSE /\ SendStart(targets)
          /\ IF dPc' = "done"
             THEN MarkAndContinue
             ELSE /\ ssePc' = "send"
                  /\ log' = Noted(log, Entry("send", hData.leadId))
                  /\ UNCHANGED <<buffer, hData, hFrame, recentLeads, markedAt>>
  /\ UNCHANGED <<sseUrl, sseRunning, reconnectDelay, timers, conns, fails, lastEnd, reads>>
  /\ UNCHANGED <<now, nextSweep, lastLookup, storeVars, parseVars, stopVars, httpVars>>

\* an awaited sendEachForMulticast settles inside the handler (205-237, 293)
HSendSettled(resp) ==
  /\ ssePc = "send"
  /\ SendSettled(resp)
  /\ IF dPc' = "done"
     THEN MarkAndContinue
     ELSE UNCHANGED <<ssePc, buffer, hData, hFrame, log, recentLeads, markedAt>>
  /\ UNCHANGED <<sseUrl, sseRunning, reconnectDelay, timers, conns, fails, lastEnd, reads>>
  /\ UNCHANGED <<now, nextSweep, lastLookup, storeVars, parseVars, stopVars, httpVars>>

\* Token.deleteOne({ token }): the collection without its first match
DeleteOne(docs, tok) ==
  LET hits == {i \in 1..Len(docs) : docs[i].token = tok} IN
  IF hits = {} THEN docs
  ELSE LET i == CHOOSE x \in hits : \A y \in hits : x <= y
       IN SubSeq(docs, 1, i - 1) \o SubSeq(docs, i + 1, Len(docs))

\* a rejected Token.deleteOne that ends the dispatch it was issued by
DeleteSettledThrows(i, ok) ==
  /\ i \in DOMAIN pending
  /\ pending' = SubSeq(pending, 1, i - 1) \o SubSeq(pending, i + 1, Len(pending))
  /\ store' = IF ok THEN DeleteOne(store, pending[i]) ELSE store
  /\ dPc' = IF ok THEN dPc ELSE "done"
  /\ UNCHANGED <<batches, bi, calls, responses, deletes, dTokens, resolved>>
  /\ UNCHANGED <<dedupVars, sseVars, parseVars, stopVars, httpVars>>

\* a pending Token.deleteOne settles (228-230): applied, or rejected and logged
DeleteSettled(i, ok) ==
  /\ i \in DOMAIN pending
  /\ pending' = SubSeq(pending, 1, i - 1) \o SubSeq(pending, i + 1, Len(pending))
  /\ store' = IF ok THEN DeleteOne(store, pending[i]) ELSE store
  /\ UNCHANGED <<dPc, batches, bi, calls, responses, deletes, dTokens, resolved>>
  /\ UNCHANGED <<dedupVars, sseVars, parseVars, stopVars, httpVars>>

(***************************************************************************)
(* Direct calls of the pure parts, on inputs drawn from bounded sets.      *)
(***************************************************************************)
MaxLen == 6
MaxRecords == 2
MaxToken == 2
MaxTokens == 1200
MaxList == 3
MainFails == 1
MainTicks == 4

ParseAlphabet == {NL, SP, "x"}

\* all sequences over S of length at most n
SeqsUpTo(S, n) == UNION {[1..k -> S] : k \in 0..n}

\* one read of the loop with no handler in the way (330-340)
Feed(k) ==
  /\ k \in 1..Len(input)
  /\ LET cut == CutFrames(Appended(buffer, SubSeq(input, 1, k))) IN
     /\ buffer' = cut.rest
     /\ frames' = frames \o cut.frames
  /\ input' = SubSeq(input, k + 1, Len(input))
  /\ cuts' = cuts \cup {Len(whole) - Len(input) + k}
  /\ UNCHANGED <<whole, sseUrl, sseRunning, reconnectDelay, ssePc, timers, hData, hFrame,
                 conns, fails, lastEnd, reads, log>>
  /\ UNCHANGED <<dedupVars, storeVars, dispatchVars, stopVars, httpVars>>

StoreTokens == {1, 2}

\* the records a Token document can be
StoreRecords ==
  [token : StoreTokens, companyId : Tenants, role : Roles,
   roleExperience : Experiences, enabled : BOOLEAN]

\* the resolution step of handleLeadEvent (265-281) for one tenant
Resolve(tenant) ==
  /\ resolved = << >>
  /\ resolved' = <<[tenant |-> tenant, targets |-> TargetsOf(TokenFind(store, tenant))]>>
  /\ UNCHANGED <<store, dedupVars, dispatchVars, sseVars, parseVars, stopVars, httpVars>>

\* a direct call of sendPushToTokens(data, dTokens)
DSendStart ==
  /\ dPc = "idle"
  /\ SendStart(dTokens)
  /\ UNCHANGED <<dedupVars, storeVars, sseVars, parseVars, stopVars, httpVars>>

DSendSettled(resp) ==
  /\ ssePc = "idle"
  /\ SendSettled(resp)
  /\ UNCHANGED <<dedupVars, storeVars, sseVars, parseVars, stopVars, httpVars>>

(***************************************************************************)
(* Initial states.                                                         *)
(***************************************************************************)
MainStore ==
  << [token |-> 1, companyId |-> "T1", role |-> "ADMIN",
      roleExperience |-> "0", enabled |-> TRUE],
     [token |-> 2, companyId |-> "T1", role |-> "EMPLOYEE",
      roleExperience |-> "1", enabled |-> TRUE],
     [token |-> 3, companyId |-> "T2", role |-> "MANAGER",
      roleExperience |-> "1", enabled |-> TRUE] >>

StoreIdle == store = << >> /\ resolved = << >>

ParseIdle == whole = << >> /\ input = << >> /\ frames = << >> /\ cuts = {}

\* no request has been received
HttpIdle == bg = << >> /\ lo = << >> /\ loggedOut = {} /\ requests = 0

SSEOff ==
  /\ sseUrl = FALSE
  /\ sseRunning = FALSE
  /\ reconnectDelay = FloorDelay
  /\ ssePc = "idle"
  /\ timers = << >>
  /\ buffer = << >>
  /\ hData = NoData
  /\ hFrame = << >>
  /\ ctl = "none"
  /\ stopping = FALSE
  /\ exited = FALSE
  /\ late = {}
  /\ conns = 0
  /\ fails = 0
  /\ lastEnd = "none"
  /\ reads = 0
  /\ log = {}

\* the module has been loaded: startSSE() was called on line 370
SSEBoot ==
  /\ sseUrl \in BOOLEAN
  /\ sseRunning = sseUrl
  /\ reconnectDelay = FloorDelay
  /\ ssePc = IF sseUrl THEN "fetch" ELSE "idle"
  /\ timers = << >>
  /\ buffer = << >>
  /\ hData = NoData
  /\ hFrame = << >>
  /\ ctl = "none"
  /\ stopping = FALSE
  /\ exited = FALSE
  /\ late = {}
  /\ conns = IF sseUrl THEN 1 ELSE 0
  /\ fails = 0
  /\ lastEnd = "none"
  /\ reads = 0
  /\ log = {}

(***************************************************************************)
(* The program: the listener, the handler, the dedup window and its sweep, *)
(* the deleteOne completions, and the clock.                               *)
(***************************************************************************)
\* a frame carrying one JSON text
FrameOf(j) == <<"data:", SP, j, NL, NL>>

\* the chunks reader.read() may deliver
MainChunks ==
  {FrameOf(j) : j \in JsonTexts} \cup
  { <<"data:", "{A}", NL>>,                      \* a frame whose delimiter is split
    <<NL>>,
    <<"event:", SP, "lead", NL, "data:", SP, "{B}", NL, NL, "data:", "{A}", NL, NL>>,
    <<"data:", "{bad", NL, NL>> }

\* the outcomes of one send considered in the whole program
MainOutcomes(n) ==
  { <<"throw">>,
    [i \in 1..n |-> "ok"],
    [i \in 1..n |-> IF i = 1 THEN "unregistered" ELSE "ok"] }

Init ==
  /\ DedupInit
  /\ store = MainStore
  /\ resolved = << >>
  /\ DispatchIdle
  /\ HttpIdle
  /\ dTokens = << >>
  /\ SSEBoot
  /\ ParseIdle

Next ==
  \/ now < ClockStep * MainTicks /\ Tick
  \/ Sweep
  \/ TimerFire
  \/ FetchOk
  \/ fails < MainFails /\ FetchFail("network")
  \/ ReadEnd("eof")
  \/ \E c \in MainChunks : ReadChunk(c)
  \/ HFindFail
  \/ HFindDone
  \/ ssePc = "send" /\ \E r \in MainOutcomes(Len(batches[bi])) : HSendSettled(r)
  \/ \E i \in DOMAIN pending, ok \in BOOLEAN : DeleteSettled(i, ok)

Spec == Init /\ [][Next]_vars

(***************************************************************************)
(* The dedup window alone, called directly.                                *)
(***************************************************************************)
InitDedup ==
  /\ DedupInit
  /\ StoreIdle
  /\ DispatchIdle
  /\ HttpIdle
  /\ dTokens = << >>
  /\ SSEOff
  /\ ParseIdle

NextDedup ==
  \/ Tick
  \/ Sweep
  \/ \E l \in LeadIdValues : DLookup(l)
  \/ \E l \in LeadIdValues : DMark(l)

SpecDedup == InitDedup /\ [][NextDedup]_vars

(***************************************************************************)
(* The connection life cycle alone: the stream carries no lead.            *)
(***************************************************************************)
IdleChunks == { <<"x", NL, NL>>, <<"x">> }

InitSSE ==
  /\ DedupInit
  /\ StoreIdle
  /\ DispatchIdle
  /\ HttpIdle
  /\ dTokens = << >>
  /\ SSEBoot
  /\ ParseIdle

NextSSE ==
  \/ TimerFire
  \/ FetchOk
  \/ \E c \in {"network", "status"} : FetchFail(c)
  \/ \E c \in {"eof", "readError"} : ReadEnd(c)
  \/ \E c \in IdleChunks : ReadChunk(c)

SpecSSE == InitSSE /\ [][NextSSE]_vars

\* a due setTimeout callback is run by the event loop, which is never blocked
\* for good (every step of the program ends at an await or returns)
SpecSSELive == InitSSE /\ [][NextSSE]_vars /\ WF_vars(TimerFire)

(***************************************************************************)
(* The frame cutter fed one input in every chunking.                       *)
(***************************************************************************)
InitParse ==
  /\ DedupInit
  /\ StoreIdle
  /\ DispatchIdle
  /\ HttpIdle
  /\ dTokens = << >>
  /\ SSEOff
  /\ whole \in SeqsUpTo(ParseAlphabet, MaxLen)
  /\ input = whole
  /\ frames = << >>
  /\ cuts = {}

NextParse == \E k \in 1..MaxLen : Feed(k)

SpecParse == InitParse /\ [][NextParse]_vars

(***************************************************************************)
(* Target selection over every small Token collection.                     *)
(***************************************************************************)
InitResolve ==
  /\ DedupInit
  /\ store \in SeqsUpTo(StoreRecords, MaxRecords)
  /\ resolved = << >>
  /\ DispatchIdle
  /\ HttpIdle
  /\ dTokens = << >>
  /\ SSEOff
  /\ ParseIdle

NextResolve == \E t \in Tenants : Resolve(t)

SpecResolve == InitResolve /\ [][NextResolve]_vars

(***************************************************************************)
(* sendPushToTokens called directly.                                       *)
(***************************************************************************)
\* list lengths around the batch size
TokenCounts ==
  {0, 1, BatchSize - 1, BatchSize, BatchSize + 1, 2 * BatchSize, MaxTokens}

\* a list longer than one batch with a falsy entry at index 2 and, past the
\* batch size, a second occurrence of token 1
RepeatList ==
  [i \in 1..(BatchSize + 3) |->
     IF i = 2 THEN 0 ELSE IF i = BatchSize + 2 THEN 1 ELSE i]

TokenLists ==
  {[i \in 1..n |-> i] : n \in TokenCounts}
    \cup SeqsUpTo(0..MaxToken, MaxList) \cup {RepeatList}

InitDispatch ==
  /\ DedupInit
  /\ store = MainStore
  /\ resolved = << >>
  /\ DispatchIdle
  /\ HttpIdle
  /\ dTokens \in TokenLists
  /\ SSEOff
  /\ ParseIdle

NextDispatch ==
  \/ DSendStart
  \/ dPc = "send" /\ \E r \in SendOutcomes : DSendSettled(r)
  \/ Len(dTokens) <= MaxList /\ \E i \in DOMAIN pending, ok \in BOOLEAN : DeleteSettled(i, ok)

SpecDispatch == InitDispatch /\ [][NextDispatch]_vars

(***************************************************************************)
(* One connection and its frames: the read loop and the handler, the clock *)
(* standing still.                                                         *)
(***************************************************************************)
\* the "type" field of each JSON text (only {A} carries one: "lead")
JsonType(a) == IF a = "{A}" THEN Str("lead") ELSE Absent

StreamChunks ==
  { FrameOf("{A}"),
    <<"event:", SP, "ping", NL, "data:", SP, "{B}", NL, NL>>,
    <<"event:", SP, "lead", NL, "data:", SP, "{B}", NL, NL, "data:", "{A}", NL, NL>>,
    <<"data:", "{bad", NL, NL, "data:", SP, "{N}", NL, NL>>,
    <<"data:", SP, "{A}", NL, "data:", SP, "{B}", NL, NL>>,
    <<"data:", "x", NL, NL>>,
    <<"data:", SP, "{U}", NL, NL, "event:", SP, "lead", NL, "data:", SP, "{A}", NL, NL>> }

NextStream ==
  \/ FetchOk
  \/ ReadEnd("eof")
  \/ \E c \in StreamChunks : ReadChunk(c)
  \/ HFindFail
  \/ HFindDone
  \/ ssePc = "send" /\ \E r \in MainOutcomes(Len(batches[bi])) : HSendSettled(r)

SpecStream == Init /\ [][NextStream]_vars

(***************************************************************************)
(* The listener with an AbortController and the shutdown handler           *)
(* (src/server.js, second program: startSSE 673-751, shutdown 832-841).    *)
(* The stream carries no lead here: only the connection life cycle.        *)
(***************************************************************************)
\* d * 1.5, exact in the unit for every delay below MAX_DELAY
TimesOneHalf(d) == d + d \div 2

\* Math.min(MAX_DELAY, reconnectDelay * 1.5)
VGrowDelay(d) == Min(MAX_DELAY, TimesOneHalf(d))

\* what a step adds to the history when it happens after shutdown()
Late(what) == IF stopping THEN late \cup {what} ELSE late

\* startSSE from its call to the awaited fetch (674-684)
VStartSSE ==
  IF ~sseUrl \/ sseRunning
  THEN UNCHANGED <<sseRunning, ssePc, conns, ctl, late>>
  ELSE /\ sseRunning' = TRUE
       /\ ctl' = "live"
       /\ ssePc' = "fetch"
       /\ conns' = conns + 1
       /\ late' = Late("attempt")

\* a reconnect timer fires
VTimerFire ==
  /\ ~exited
  /\ \E i \in DOMAIN timers :
       timers' = SubSeq(timers, 1, i - 1) \o SubSeq(timers, i + 1, Len(timers))
  /\ VStartSSE
  /\ UNCHANGED <<sseUrl, reconnectDelay, buffer, hData, hFrame, fails, lastEnd, reads, log>>
  /\ UNCHANGED <<stopping, exited>>
  /\ UNCHANGED <<dedupVars, storeVars, dispatchVars, parseVars, httpVars>>

\* the three ends of an invocation (686-691, 741-744, 745-750): the flag is
\* cleared, the timer armed with the current delay, then the delay grown
VClose(cause) ==
  /\ sseRunning' = FALSE
  /\ timers' = Append(timers, reconnectDelay)
  /\ reconnectDelay' = VGrowDelay(reconnectDelay)
  /\ ssePc' = "idle"
  /\ buffer' = << >>
  /\ conns' = conns - 1
  /\ fails' = Min(fails + 1, MaxFails)
  /\ lastEnd' = cause
  /\ late' = Late("timer")
  /\ UNCHANGED <<sseUrl, hData, hFrame, reads, log>>
  /\ UNCHANGED <<ctl, stopping, exited>>
  /\ UNCHANGED <<dedupVars, storeVars, dispatchVars, parseVars, httpVars>>

\* fetch resolves with res.ok (684-699)
VFetchOk ==
  /\ ~exited
  /\ ssePc = "fetch"
  /\ ctl = "live"
  /\ reconnectDelay' = FloorDelay
  /\ buffer' = << >>
  /\ ssePc' = "read"
  /\ fails' = 0
  /\ UNCHANGED <<sseUrl, sseRunning, timers, hData, hFrame, conns, lastEnd, reads, log>>
  /\ UNCHANGED <<dedupVars, storeVars, dispatchVars, parseVars, stopVars, httpVars>>

\* fetch rejects (745), or resolves with a non-success status (686)
VFetchFail(cause) ==
  /\ ~exited
  /\ ssePc = "fetch"
  /\ ctl = "live"
  /\ cause \in {"network", "status"}
  /\ VClose(cause)

\* reader.read() resolves with done (703, 741), or rejects (745)
VReadEnd(cause) ==
  /\ ~exited
  /\ ssePc = "read"
  /\ ctl = "live"
  /\ cause \in {"eof", "readError"}
  /\ VClose(cause)

\* reader.read() resolves with a chunk whose frames carry no data: line
\* (702-722)
VReadChunk(chunk) ==
  /\ ~exited
  /\ ssePc = "read"
  /\ ctl = "live"
  /\ reads < MaxReads
  /\ reads' = reads + 1
  /\ buffer' = CutFrames(Appended(buffer, chunk)).rest
  /\ UNCHANGED <<sseUrl, sseRunning, reconnectDelay, ssePc, timers, hData, hFrame,
                 conns, fails, lastEnd, log>>
  /\ UNCHANGED <<dedupVars, storeVars, dispatchVars, parseVars, stopVars, httpVars>>

\* the aborted fetch or read rejects with an AbortError: the catch block (745-750)
VAborted ==
  /\ ~exited
  /\ ssePc \in {"fetch", "read"}
  /\ ctl = "aborted"
  /\ VClose("abort")

\* SIGINT / SIGTERM: shutdown() up to mongoose.connection.close (832-835)
Shutdown ==
  /\ ~stopping
  /\ ~exited
  /\ stopping' = TRUE
  /\ ctl' = IF ctl = "live" THEN "aborted" ELSE ctl
  /\ UNCHANGED <<exited, late>>
  /\ UNCHANGED <<dedupVars, storeVars, dispatchVars, sseVars, parseVars, httpVars>>

\* the callback of mongoose.connection.close: process.exit(0) (835-838)
ProcessExit ==
  /\ stopping
  /\ ~exited
  /\ exited' = TRUE
  /\ UNCHANGED <<ctl, stopping, late>>
  /\ UNCHANGED <<dedupVars, storeVars, dispatchVars, sseVars, parseVars, httpVars>>

\* the module has been loaded: startSSE() was called on line 754
InitShutdown ==
  /\ DedupInit
  /\ StoreIdle
  /\ DispatchIdle
  /\ HttpIdle
  /\ dTokens = << >>
  /\ ParseIdle
  /\ sseUrl \in BOOLEAN
  /\ sseRunning = sseUrl
  /\ reconnectDelay = FloorDelay
  /\ ssePc = IF sseUrl THEN "fetch" ELSE "idle"
  /\ timers = << >>
  /\ buffer = << >>
  /\ hData = NoData
  /\ hFrame = << >>
  /\ conns = IF sseUrl THEN 1 ELSE 0
  /\ fails = 0
  /\ lastEnd = "none"
  /\ reads = 0
  /\ log = {}
  /\ ctl = IF sseUrl THEN "live" ELSE "none"
  /\ stopping = FALSE
  /\ exited = FALSE
  /\ late = {}

NextShutdown ==
  \/ VTimerFire
  \/ VFetchOk
  \/ \E c \in {"network", "status"} : VFetchFail(c)
  \/ \E c \in {"eof", "readError"} : VReadEnd(c)
  \/ \E c \in IdleChunks : VReadChunk(c)
  \/ VAborted
  \/ Shutdown
  \/ ProcessExit

SpecShutdown == InitShutdown /\ [][NextShutdown]_vars

(***************************************************************************)
(* The token routes: POST /register-token (378-425) and POST /logout-token *)
(* (431-438), with the Token collection they write.  A document is         *)
(* [token, userId, companyId, role, roleExperience, enabled]; clientInfo   *)
(* and lastSeen play no part in targeting and are left out.  In a request  *)
(* body the token 0 and the empty string stand for a missing field.        *)
(***************************************************************************)
MaxRequests == 3

RegisterBodies ==
  [token : {0, 1}, userId : {"", "u1"}, companyId : {"", "T1"},
   role : {"", "ADMIN"}, roleExperience : {"", "1"}]

LogoutBodies == [userId : {"", "u1"}, token : {0, 1}]

\* lines 398-407: the payload of the background upsert
Payload(body) ==
  [token |-> body.token, userId |-> body.userId, companyId |-> body.companyId,
   role |-> body.role,
   roleExperience |-> IF body.roleExperience = "" THEN "0" ELSE body.roleExperience,
   enabled |-> TRUE]

\* the first document with the token, 0 when there is none
FirstWithToken(docs, tok) ==
  LET hits == {i \in 1..Len(docs) : docs[i].token = tok}
  IN IF hits = {} THEN 0 ELSE CHOOSE i \in hits : \A j \in hits : i <= j

\* Token.updateOne({ token }, payload, { upsert: true }) applied (line 411)
UpsertOne(docs, payload) ==
  LET i == FirstWithToken(docs, payload.token)
  IN IF i = 0 THEN Append(docs, payload) ELSE [docs EXCEPT ![i] = payload]

\* Token.updateOne({ token }, { enabled: false }) applied (line 434)
DisableOne(docs, tok) ==
  LET i == FirstWithToken(docs, tok)
  IN IF i = 0 THEN docs ELSE [docs EXCEPT ![i].enabled = FALSE]

\* Token.updateMany({ userId }, { enabled: false }) applied (line 435)
DisableMany(docs, user) ==
  [i \in 1..Len(docs) |->
     IF docs[i].userId = user THEN [docs[i] EXCEPT !.enabled = FALSE] ELSE docs[i]]

WithoutIndex(q, i) == SubSeq(q, 1, i - 1) \o SubSeq(q, i + 1, Len(q))

\* POST /register-token up to the end of the handler (378-420): 400 on a
\* missing field; otherwise the response is sent and the upsert is queued
RegisterToken(body) ==
  /\ requests < MaxRequests
  /\ requests' = requests + 1
  /\ loggedOut' = loggedOut \ {body.token}
  /\ bg' = IF body.token = 0 \/ body.userId = "" \/ body.companyId = ""
           THEN bg
           ELSE Append(bg, [pc |-> "immediate", payload |-> Payload(body)])
  /\ UNCHANGED <<lo, store>>
  /\ UNCHANGED <<dedupVars, resolved, dispatchVars, sseVars, parseVars, stopVars>>

\* the setImmediate callback up to its await (396-411)
BgRun(i) ==
  /\ i \in DOMAIN bg
  /\ bg[i].pc = "immediate"
  /\ bg' = [bg EXCEPT ![i].pc = "update"]
  /\ UNCHANGED <<lo, loggedOut, requests, store>>
  /\ UNCHANGED <<dedupVars, resolved, dispatchVars, sseVars, parseVars, stopVars>>

\* the awaited upsert settles: applied, or rejected and logged (411-416)
BgSettled(i, ok) ==
  /\ i \in DOMAIN bg
  /\ bg[i].pc = "update"
  /\ store' = IF ok THEN UpsertOne(store, bg[i].payload) ELSE store
  /\ bg' = WithoutIndex(bg, i)
  /\ UNCHANGED <<lo, loggedOut, requests>>
  /\ UNCHANGED <<dedupVars, resolved, dispatchVars, sseVars, parseVars, stopVars>>

\* POST /logout-token up to its first await, or to its response when the
\* body names neither a token nor a user (431-437)
LogoutToken(body) ==
  /\ requests < MaxRequests
  /\ requests' = requests + 1
  /\ lo' = IF body.token # 0
           THEN Append(lo, [pc |-> "one", userId |-> body.userId, token |-> body.token])
           ELSE IF body.userId # ""
           THEN Append(lo, [pc |-> "many", userId |-> body.userId, token |-> body.token])
           ELSE lo
  /\ UNCHANGED <<bg, loggedOut, store>>
  /\ UNCHANGED <<dedupVars, resolved, dispatchVars, sseVars, parseVars, stopVars>>

\* an awaited update of /logout-token settles (434-437).  Rejected: the
\* async handler throws and the request is never answered.  Applied: the
\* handler goes on to the updateMany, or sends the response.
LogoutSettled(i, ok) ==
  /\ i \in DOMAIN lo
  /\ LET r == lo[i]
         answered == IF r.token # 0 THEN loggedOut \cup {r.token} ELSE loggedOut
     IN IF ~ok
        THEN /\ lo' = WithoutIndex(lo, i)
             /\ UNCHANGED <<store, loggedOut>>
        ELSE IF r.pc = "one"
        THEN /\ store' = DisableOne(store, r.token)
             /\ IF r.userId # ""
                THEN /\ lo' = [lo EXCEPT ![i].pc = "many"]
                     /\ loggedOut' = loggedOut
                ELSE /\ lo' = WithoutIndex(lo, i)
                     /\ loggedOut' = answered
        ELSE /\ store' = DisableMany(store, r.userId)
             /\ lo' = WithoutIndex(lo, i)
             /\ loggedOut' = answered
  /\ UNCHANGED <<bg, requests>>
  /\ UNCHANGED <<dedupVars, resolved, dispatchVars, sseVars, parseVars, stopVars>>

InitTokens ==
  /\ DedupInit
  /\ StoreIdle
  /\ DispatchIdle
  /\ HttpIdle
  /\ dTokens = << >>
  /\ SSEOff
  /\ ParseIdle

NextTokens ==
  \/ \E body \in RegisterBodies : RegisterToken(body)
  \/ \E i \in DOMAIN bg : BgRun(i)
  \/ \E i \in DOMAIN bg, ok \in BOOLEAN : BgSettled(i, ok)
  \/ \E body \in LogoutBodies : LogoutToken(body)
  \/ \E i \in DOMAIN lo, ok \in BOOLEAN : LogoutSettled(i, ok)

SpecTokens == InitTokens /\ [][NextTokens]_vars

(***************************************************************************)
(* Properties.                                                             *)
(***************************************************************************)

\* C1 (SpecDedup): once a lead identifier L has been marked, a lookup of L
\* made less than the TTL (20 s) after the mark reports it as recently
\* processed (the event is suppressed), and a lookup made when the TTL has
\* elapsed reports it as not recent (the event is processed), whatever
\* sweeps and other lookups ran in between.
C1_DedupWindow ==
  (lastLookup # << >> /\ Truthy(lastLookup[1])
     /\ markedAt[JsString(lastLookup[1])] # 0)
  => (lastLookup[2] <=> lastLookup[3] - markedAt[JsString(lastLookup[1])] < 20 * 1000)

\* a lookup of a marked lead, one clock step after the mark, is suppressed
C1_Witness ==
  /\ lastLookup # << >>
  /\ Truthy(lastLookup[1])
  /\ markedAt[JsString(lastLookup[1])] # 0
  /\ lastLookup[3] = markedAt[JsString(lastLookup[1])] + ClockStep
  /\ lastLookup[2] = TRUE

\* C2 (Spec): an event with a non-empty leadId gets past the dedup check (to
\* the store query and the provider send) only if that leadId was never
\* marked processed or was marked at least the TTL ago: a repeat handled
\* within the TTL of the mark is dropped before any query or send.
C2_OneDispatchPerWindow ==
  (ssePc \in {"find", "send"} /\ Truthy(hData.leadId))
  => \/ markedAt[JsString(hData.leadId)] = 0
     \/ now - markedAt[JsString(hData.leadId)] >= 20 * 1000

\* lead 7 was dispatched once (frame {B}); its repeat (frame {A}) was dropped
\* as a duplicate before any query or send
C2_Witness ==
  /\ Entry("send", Num("7")) \in log
  /\ Entry("mark", Str("7")) \in log
  /\ Entry("dup", Str("7")) \in log
  /\ Entry("query", Str("7")) \notin log
  /\ Len(calls) = 1

\* C3 (Spec): an event without a lead identifier (absent or empty leadId) is
\* never dropped as a duplicate, and the dedup map never holds a key that
\* does not come from a non-empty leadId.
C3_NoIdNeverDeduped ==
  /\ \A e \in log : e.op = "dup" => Truthy(e.lead)
  /\ DOMAIN recentLeads \subseteq LeadKeys

\* an event with an empty leadId reaches the store query at the very instant
\* an event with no leadId was processed
C3_Witness ==
  /\ ssePc = "find"
  /\ hData.leadId = Str("")
  /\ Entry("query", Absent) \in log
  /\ now = ClockStep
  /\ recentLeads = << >>

\* the delay the k-th consecutive failure waits according to the claim:
\* min(2000 * 1.5^(k-1), 60000) ms
RECURSIVE ClaimedDelay(_)
ClaimedDelay(k) ==
  IF k <= 1 THEN 2000 * DelayScale
  ELSE LET d == ClaimedDelay(k - 1)
       IN Min((d \div 2) * 3 + ((d % 2) * 3) \div 2, 60000 * DelayScale)

\* C4 (SpecSSE): the reconnect timer armed by the k-th consecutive close
\* since the last successful connect waits min(2000 * 1.5^(k-1), 60000) ms:
\* 2000, 3000, 4500, 6750, ...
C4_BackoffSequence ==
  timers # << >> => timers[Len(timers)] = ClaimedDelay(fails)

\* C5 (SpecSSE): the reconnect scheduled when a successfully opened
\* connection ends (clean end or read error) waits the floor delay, 2000 ms.
C5_SuccessResets ==
  (timers # << >> /\ lastEnd \in {"eof", "readError"})
  => timers[Len(timers)] = 2000 * DelayScale

\* C6 (SpecResolve): the targets resolved for a tenant are exactly the tokens
\* of that tenant's enabled endpoints whose role is ADMIN, or EMPLOYEE with
\* roleExperience "1", each token once.
C6_TargetRule ==
  \A i \in DOMAIN resolved :
    LET r == resolved[i]
        want == {store[j].token : j \in
                   {j \in DOMAIN store :
                      /\ store[j].companyId = r.tenant
                      /\ store[j].enabled
                      /\ \/ store[j].role = "ADMIN"
                         \/ store[j].role = "EMPLOYEE" /\ store[j].roleExperience = "1"}}
    IN /\ Range(r.targets) = want
       /\ Len(r.targets) = Cardinality(want)

\* T1 has an ADMIN and an EMPLOYEE with roleExperience "0": only the ADMIN's
\* token is a target
C6_Witness ==
  /\ Len(store) = 2
  /\ Len(resolved) = 1
  /\ resolved[1].tenant = "T1"
  /\ store[1] = [token |-> 1, companyId |-> "T1", role |-> "ADMIN",
                 roleExperience |-> "0", enabled |-> TRUE]
  /\ store[2] = [token |-> 2, companyId |-> "T1", role |-> "EMPLOYEE",
                 roleExperience |-> "0", enabled |-> TRUE]
  /\ resolved[1].targets = <<1>>

\* whether a token list holds no falsy token and no token twice
UniqueTruthy(xs) == 0 \notin Range(xs) /\ Cardinality(Range(xs)) = Len(xs)

\* C7 (SpecDispatch): for a list of n unique tokens the multicast calls carry
\* the list in order in batches of 500: call b carries tokens
\* 500(b-1)+1 .. min(500b, n), the batches are pairwise disjoint, and once
\* the dispatch is done there were exactly ceil(n/500) calls.
C7_Batching ==
  UniqueTruthy(dTokens) =>
    /\ \A b \in DOMAIN calls :
         /\ Len(calls[b]) = Min(BatchSize, Len(dTokens) - BatchSize * (b - 1))
         /\ \A i \in DOMAIN calls[b] : calls[b][i] = dTokens[BatchSize * (b - 1) + i]
    /\ \A b \in DOMAIN calls : \A c \in DOMAIN calls :
         b < c => Range(calls[b]) \cap Range(calls[c]) = {}
    /\ dPc = "done" => Len(calls) = (Len(dTokens) + BatchSize - 1) \div BatchSize

\* 1200 tokens went out as 500 / 500 / 200
C7_Witness ==
  /\ dPc = "done"
  /\ Len(dTokens) = 2 * BatchSize + 200
  /\ Len(calls) = 3
  /\ Len(calls[1]) = BatchSize /\ Len(calls[2]) = BatchSize /\ Len(calls[3]) = 200

\* the <<call, index>> pairs whose recipient failed as invalid or unregistered
BadRecipients ==
  {p \in UNION {{<<b, i>> : i \in DOMAIN responses[b]} : b \in DOMAIN responses} :
     responses[p[1]][p[2]] \in {"invalid", "unregistered"}}

\* C8 (SpecDispatch): the deleteOne requests issued are, one each, for the
\* tokens at the indexes whose result is a failure classified invalid or
\* unregistered; none for a success, for another classification, or for a
\* batch whose send threw.
C8_Cleanup ==
  /\ Len(deletes) = Cardinality(BadRecipients)
  /\ Range(deletes) = {calls[p[1]][p[2]] : p \in BadRecipients}

\* of 1000 tokens, the last of the second batch is unregistered and is the
\* only one deleted; the first of that batch failed for another reason
C8_Witness ==
  /\ dPc = "done"
  /\ Len(calls) = 2
  /\ Len(responses) = 2
  /\ Len(responses[2]) = BatchSize
  /\ responses[1] = [i \in 1..BatchSize |-> "ok"]
  /\ responses[2][1] = "other"
  /\ responses[2][BatchSize] = "unregistered"
  /\ deletes = <<2 * BatchSize>>

\* C9 (SpecParse): whatever the chunk boundaries, the frames cut so far and
\* the buffer are those of cutting the characters read so far in one piece.
C9_ChunkIndependence ==
  LET one == CutFrames(SubSeq(whole, 1, Len(whole) - Len(input)))
  IN frames = one.frames /\ buffer = one.rest

\* the whole input was read, a chunk ended between the two newlines of a
\* delimiter, and the frame before that delimiter was cut
C9_Witness ==
  /\ input = << >>
  /\ frames # << >>
  /\ \E c \in cuts : c < Len(whole) /\ whole[c] = NL /\ whole[c + 1] = NL
                      /\ (c = 1 \/ whole[c - 1] = "x")

\* C10 (SpecSSE): at most one startSSE invocation is past the single-flight
\* guard (connecting or reading) at any time.
C10_SingleFlight == conns <= 1

\* a connection is in progress after an earlier one was closed
C10_Witness == conns = 1 /\ ssePc = "read" /\ lastEnd # "none"

\* the value of a frame's last event: line, trimmed; << >> when it has none
EventField(frame) ==
  LET ls == SplitLines(frame)
      hits == {i \in 1..Len(ls) : Trim(ls[i]) # << >> /\ Trim(ls[i])[1] = "event:"}
  IN IF hits = {} THEN << >>
     ELSE Trim(Tail(Trim(ls[CHOOSE i \in hits : \A j \in hits : i >= j])))

\* the logical type of a frame is lead: its event: field is lead, or its
\* payload is a JSON object whose type field is "lead"
IsLeadFrame(frame) ==
  \/ EventField(frame) = <<"lead">>
  \/ LET line == DataLine(frame)
     IN Len(line) = 1 /\ line[1] \in JsonTexts /\ JsonType(line[1]) = Str("lead")

\* C11 (SpecStream): the lead event handler is only ever given a frame whose
\* logical type is lead (event: lead, or "type": "lead" in the payload); a
\* frame of another type is never handled.
C11_OnlyLeadFrames == hFrame # << >> => IsLeadFrame(hFrame)

\* C12 (SpecDispatch): sendPushToTokens never raises: whatever the provider
\* does (a send that throws, recipients failing in any way, a deleteOne that
\* fails), the call is either suspended on the send of one of its batches or
\* has returned normally with every batch settled.
C12_NeverRaises ==
  /\ dPc \in {"idle", "send", "done"}
  /\ dPc = "send" => bi \in DOMAIN batches /\ Len(responses) = bi - 1
  /\ dPc = "done" => Len(responses) = Len(batches)

\* the dispatch returned after a recipient failed as invalid and the cleanup
\* of its token failed too (the record is still stored)
C12_Witness ==
  /\ dPc = "done"
  /\ dTokens = <<1, 2>>
  /\ responses = << <<"invalid", "other">> >>
  /\ deletes = <<1>>
  /\ pending = << >>
  /\ \E i \in DOMAIN store : store[i].token = 1

C14_AlwaysReconnects ==
  /\ []((sseUrl /\ ssePc = "idle") => (~sseRunning /\ timers # << >>))
  /\ ((sseUrl /\ ssePc = "idle") ~> (ssePc = "fetch"))

\* disconnected after a mid-stream read error on a connection that had been
\* re-established, the reconnect pending
C14_Witness ==
  /\ sseUrl
  /\ ssePc = "idle"
  /\ lastEnd = "readError"
  /\ reads > 0
  /\ Len(timers) = 1

\* C15 (Spec): a lead is marked processed after a dispatch only if a send of
\* that dispatch succeeded: if a send was started for a lead and the lead is
\* in the dedup window, some provider send has returned without throwing.
C15_MarkOnlyAfterSuccess ==
  \A e \in log :
    (e.op = "send" /\ Truthy(e.lead) /\ markedAt[JsString(e.lead)] # 0)
    => \E i \in DOMAIN responses : responses[i] # <<"throw">>

\* C16 (SpecShutdown): once shutdown has been requested, a connection or
\* read still in flight is one that has been aborted, no reconnect timer
\* has been set since and no new connection attempt has started since.
C16_ShutdownQuiesces ==
  stopping =>
    /\ late = {}
    /\ ssePc \in {"fetch", "read"} => ctl = "aborted"

\* the frame handed to the handler is the last one cut from the front part
\* of txt that has been consumed, and nothing of that part is left over
NextFrameOf(txt, frame, rest) ==
  /\ Len(rest) <= Len(txt)
  /\ rest = SubSeq(txt, Len(txt) - Len(rest) + 1, Len(txt))
  /\ LET cut == CutFrames(SubSeq(txt, 1, Len(txt) - Len(rest)))
     IN /\ cut.rest = << >>
        /\ cut.frames # << >>
        /\ cut.frames[Len(cut.frames)] = frame

\* C17 (SpecStream): event handling is strictly sequential and in stream
\* order: a handler is in flight exactly while the loop is suspended inside
\* it, a dispatch is in flight only inside a handler, no chunk is read and
\* the connection is not closed while a handler is in flight, and the frame
\* a handler starts on is cut from the stream text that follows everything
\* consumed before.
C17_InOrder ==
  /\ [](/\ (ssePc \in {"find", "send"}) <=> (hFrame # << >>)
        /\ dPc = "send" => ssePc = "send")
  /\ [][ /\ (reads' # reads \/ lastEnd' # lastEnd) => ssePc = "read"
         /\ (ssePc' = "find" /\ (ssePc # "find" \/ buffer' # buffer)) =>
              IF reads' = reads
              THEN NextFrameOf(buffer, hFrame', buffer')
              ELSE \E c \in StreamChunks :
                     NextFrameOf(buffer \o c, hFrame', buffer')
       ]_vars

\* a handler is suspended on the store query for the first frame of a chunk
\* while the second, complete frame waits in the buffer
C17_Witness ==
  /\ ssePc = "find"
  /\ hFrame = <<"event:", SP, "lead", NL, "data:", SP, "{B}">>
  /\ buffer = <<"data:", "{A}", NL, NL>>

\* the values of a frame's data: lines (each line trimmed, the field name
\* removed, trimmed again), concatenated in order of appearance
RECURSIVE ConcatData(_)
ConcatData(ls) ==
  IF ls = << >> THEN << >>
  ELSE LET l == Trim(Head(ls))
       IN (IF l # << >> /\ l[1] = "data:" THEN Trim(Tail(l)) ELSE << >>)
            \o ConcatData(Tail(ls))

\* C18 (SpecStream): the event a handler is given is the parse of the
\* concatenation, in order, of all the data: lines of its frame.
C18_AllDataLines ==
  hFrame # << >> =>
    LET payload == ConcatData(SplitLines(hFrame))
    IN /\ Len(payload) = 1
       /\ payload[1] \in JsonTexts
       /\ hData = WithCompany(JsonParse(payload[1]))

\* C19 (SpecStream): a malformed frame fails alone: a handler is only ever
\* given a frame whose payload is one JSON object text; while the connection
\* is open the flag stays set, no reconnect is scheduled and the backoff
\* delay stays at the floor; and the loop waits for the next chunk only when
\* no complete frame is left in the buffer, so the frames that follow a
\* malformed one are handled.
C19_MalformedFrameSkipped ==
  /\ hFrame # << >> =>
       LET line == DataLine(hFrame) IN Len(line) = 1 /\ line[1] \in JsonTexts
  /\ ssePc \in {"read", "find", "send"} =>
       sseRunning /\ timers = << >> /\ reconnectDelay = 2000 * DelayScale
  /\ ssePc = "read" =>
       \A i \in 1..(Len(buffer) - 1) : ~(buffer[i] = NL /\ buffer[i + 1] = NL)

\* the well-formed frame following a malformed one in the same chunk is
\* being handled, the connection still open
C19_Witness ==
  /\ ssePc = "find"
  /\ reads = 1
  /\ hFrame = <<"data:", SP, "{N}">>
  /\ buffer = << >>
  /\ sseRunning

\* C20 (SpecStream): an event with neither companyId nor tenantId has no
\* effect: no handler is ever suspended on a store query or a send for it,
\* and every key of the dedup map comes from an event that got to the store
\* query, so an unroutable event leaves no entry behind, whatever its leadId.
C20_UnroutableNoEffect ==
  /\ ssePc \in {"find", "send"} => Truthy(hData.companyId)
  /\ \A k \in DOMAIN recentLeads :
       \E e \in log : e.op = "query" /\ Truthy(e.lead) /\ JsString(e.lead) = k

\* an unroutable event with leadId 7 was dropped, and the routable event
\* with the same leadId right behind it is being handled
C20_Witness ==
  /\ Entry("unroutable", Str("7")) \in log
  /\ ssePc = "find"
  /\ reads = 1
  /\ hData.leadId = Str("7")
  /\ hData.companyId = Str("T1")
  /\ recentLeads = << >>

C22_CleanupDetached ==
  /\ [](ssePc = "send" <=> dPc = "send")
  /\ [][ Len(pending') < Len(pending)
         => /\ UNCHANGED <<dPc, batches, bi, calls, responses, deletes>>
            /\ UNCHANGED <<ssePc, hData, buffer, log, recentLeads, markedAt>>
            /\ UNCHANGED <<sseRunning, timers, reconnectDelay>> ]_vars

C22_Witness ==
  /\ dPc = "done"
  /\ ssePc = "read"
  /\ pending # << >>
  /\ "7" \in DOMAIN recentLeads
  /\ Entry("mark", Str("7")) \in log

\* C23: an entry whose age has reached the TTL is treated as absent by the
\* lookup, swept or not, and the lookup removes it: a lookup of a lead marked
\* 20 s or more before answers "not recent", and after a lookup that answered
\* "not recent" the map holds no entry for that lead (until it is marked again).
C23_ExpiredIsAbsent ==
  (lastLookup # << >> /\ Truthy(lastLookup[1]))
  => LET k == JsString(lastLookup[1]) IN
     /\ (markedAt[k] # 0 /\ lastLookup[3] - markedAt[k] >= 20 * 1000)
          => ~lastLookup[2]
     /\ ~lastLookup[2] => k \notin DOMAIN recentLeads

C23_Witness ==
  /\ lastLookup # << >>
  /\ lastLookup[1] = Str("7")
  /\ ~lastLookup[2]
  /\ markedAt["7"] # 0
  /\ lastLookup[3] - markedAt["7"] = 20 * 1000
  /\ now = lastLookup[3]
  /\ nextSweep = ClockStep + SweepInterval
  /\ "7" \notin DOMAIN recentLeads

\* C24: each run of the sweep removes exactly the entries older than the TTL:
\* right after it every entry left has an age of at most 20 s and every entry
\* removed was older; so the map never holds an entry older than the TTL plus
\* one sweep interval (50 s).
C24_SweepBounds ==
  /\ [](\A k \in DOMAIN recentLeads : now - recentLeads[k] <= 20 * 1000 + 30000)
  /\ [][ nextSweep' # nextSweep
         => /\ \A k \in DOMAIN recentLeads' :
                 /\ k \in DOMAIN recentLeads
                 /\ recentLeads'[k] = recentLeads[k]
                 /\ now' - recentLeads'[k] <= 20 * 1000
            /\ \A k \in DOMAIN recentLeads \ DOMAIN recentLeads' :
                 now - recentLeads[k] > 20 * 1000 ]_vars

C24_Witness ==
  /\ nextSweep > ClockStep + SweepInterval
  /\ markedAt["7"] # 0
  /\ now - markedAt["7"] > 20 * 1000
  /\ "7" \notin DOMAIN recentLeads
  /\ "L2" \in DOMAIN recentLeads
  /\ now - recentLeads["L2"] = 20 * 1000
  /\ now = nextSweep - SweepInterval

\* C30: the sweep is invisible to lookups.  Without sweeps a lookup answers
\* "recent" exactly when the lead was last marked less than 20 s before; with
\* them every lookup answers the same, because an entry marked less than 20 s
\* ago is always still in the map with its mark time.
C30_SweepTransparent ==
  /\ \A k \in LeadKeys :
       (markedAt[k] # 0 /\ now - markedAt[k] < 20 * 1000)
       => (k \in DOMAIN recentLeads /\ recentLeads[k] = markedAt[k])
  /\ (lastLookup # << >> /\ Truthy(lastLookup[1]))
     => LET k == JsString(lastLookup[1]) IN
        lastLookup[2] = (markedAt[k] # 0 /\ lastLookup[3] - markedAt[k] < 20 * 1000)

C30_Witness ==
  /\ lastLookup # << >>
  /\ lastLookup[1] = Str("7")
  /\ lastLookup[2]
  /\ nextSweep > ClockStep + SweepInterval
  /\ markedAt["7"] < nextSweep - SweepInterval
  /\ lastLookup[3] >= nextSweep - SweepInterval

\* the truthy entries of a list at their first occurrence, in list order
FirstOccurrences(xs) ==
  IF UniqueTruthy(xs) THEN xs
  ELSE LET idx == [i \in 1..Len(xs) |-> i]
           firsts == SelectSeq(idx, LAMBDA i :
                       xs[i] # 0 /\ \A j \in 1..(i - 1) : xs[j] # xs[i])
       IN [n \in 1..Len(firsts) |-> xs[firsts[n]]]

\* the tokens of the multicast calls made so far, one call after the other
RECURSIVE FlatCalls(_)
FlatCalls(cs) ==
  IF cs = << >> THEN << >>
  ELSE FlatCalls(SubSeq(cs, 1, Len(cs) - 1)) \o cs[Len(cs)]

\* C25: the tokens handed to the provider, call after call, are the target
\* list without its falsy entries and with each token kept at its first
\* occurrence only, in list order: no token is sent twice, in one batch or in
\* two, none is falsy, and a list with no truthy entry produces no call.
C25_Normalized ==
  LET want == FirstOccurrences(dTokens)
      flat == FlatCalls(calls)
  IN /\ Len(flat) <= Len(want)
     /\ flat = SubSeq(want, 1, Len(flat))
     /\ dPc = "done" => flat = want
     /\ 0 \notin Range(flat)
     /\ Cardinality(Range(flat)) = Len(flat)
     /\ Range(dTokens) \subseteq {0} => calls = << >>

C25_Witness ==
  /\ dPc = "done"
  /\ Len(dTokens) = BatchSize + 3
  /\ dTokens[2] = 0
  /\ dTokens[BatchSize + 2] = dTokens[1]
  /\ Len(calls) = 2
  /\ Len(calls[1]) = BatchSize
  /\ calls[1][1] = dTokens[1] /\ calls[1][2] = dTokens[3]
  /\ calls[2] = <<dTokens[BatchSize + 3]>>

\* C26: the reconnect delay is never below 2000 ms nor above 60000 ms, and no
\* reconnect timer is armed with a delay outside that range.
C26_DelayRange ==
  /\ 2000 * DelayScale <= reconnectDelay
  /\ reconnectDelay <= 60000 * DelayScale
  /\ \A i \in DOMAIN timers :
       2000 * DelayScale <= timers[i] /\ timers[i] <= 60000 * DelayScale

\* the delay has grown to the cap and the pending timer waits that long
C26_Witness ==
  /\ ssePc = "idle"
  /\ reconnectDelay = 60000 * DelayScale
  /\ timers = <<60000 * DelayScale>>

\* C27: at most one reconnect timer is pending at any time, none is pending
\* while a connection attempt or a read loop is in progress, and each
\* disconnect arms exactly one.
C27_OneTimer ==
  /\ [](Len(timers) <= 1)
  /\ [](timers # << >> => (ssePc = "idle" /\ conns = 0))
  /\ [][conns' < conns => (timers = << >> /\ Len(timers') = 1)]_vars

\* disconnected for the third time or more, after a non-success status, with
\* one timer pending
C27_Witness ==
  /\ ssePc = "idle"
  /\ lastEnd = "status"
  /\ fails >= 3
  /\ Len(timers) = 1
  /\ conns = 0

\* whether the store holds an eligible, enabled endpoint of the tenant
TenantHasTargets(tenant) ==
  \E i \in DOMAIN store :
    /\ store[i].companyId = tenant
    /\ store[i].enabled
    /\ ( \/ store[i].role = "ADMIN"
         \/ (store[i].role = "EMPLOYEE" /\ store[i].roleExperience = "1") )

\* C28: a failure of the token store query is contained.  When the handler
\* of an event whose tenant has eligible endpoints ends without starting a
\* send (the query was rejected), no provider call is made, the dedup map is
\* unchanged (the lead is not marked), the connection stays open with no
\* reconnect scheduled, and the read loop goes on: it is either waiting for
\* the next chunk with no complete frame left in the buffer, or handling a
\* later frame of the buffer.
C28_QueryFailureContained ==
  [][ ( /\ ssePc = "find"
        /\ ssePc' # "send"
        /\ TenantHasTargets(JsString(hData.companyId)) )
      => /\ calls' = calls /\ dPc' = dPc /\ pending' = pending
         /\ recentLeads' = recentLeads
         /\ markedAt' = markedAt
         /\ sseRunning /\ sseRunning' /\ conns' = conns /\ timers' = timers
         /\ reconnectDelay' = reconnectDelay
         /\ \/ ssePc' = "read" /\ IndexOfBlank(buffer') = 0
            \/ ssePc' = "find" /\ Len(buffer') < Len(buffer) ]_vars

\* the query for the first frame of a chunk failed, and the frame right
\* behind it, a repeat of the same lead, is being handled: nothing was sent
\* and nothing marked
C28_Witness ==
  /\ ssePc = "find"
  /\ reads = 1
  /\ Entry("query", Num("7")) \in log
  /\ hFrame = <<"data:", "{A}">>
  /\ hData.leadId = Str("7")
  /\ recentLeads = << >>
  /\ calls = << >>
  /\ sseRunning

\* C29: a suppressed duplicate does not extend the window.  The timestamp of
\* every entry of the dedup map is the time of the lead's last mark; a step
\* in which no lead is marked (a duplicate being dropped among them) adds no
\* entry and changes no timestamp; and a lead is noted as dropped for the
\* first time only within 20 s of its last mark (which may be the mark made
\* in the same step, by the handler of the frame before it), so the first
\* event handled 20 s or more after the mark is processed again.
C29_NoExtension ==
  /\ [](\A k \in DOMAIN recentLeads : recentLeads[k] = markedAt[k])
  /\ [][ markedAt' = markedAt
         => \A k \in DOMAIN recentLeads' :
              k \in DOMAIN recentLeads /\ recentLeads'[k] = recentLeads[k] ]_vars
  /\ [][ \A e \in log' \ log :
           e.op = "dup"
           => /\ Truthy(e.lead)
              /\ markedAt'[JsString(e.lead)] # 0
              /\ now' - markedAt'[JsString(e.lead)] < 20 * 1000
              /\ JsString(e.lead) \in DOMAIN recentLeads'
              /\ recentLeads'[JsString(e.lead)] = markedAt'[JsString(e.lead)] ]_vars

\* lead 7 was marked, a repeat was dropped as a duplicate, and the event for
\* lead 7 read exactly 20 s after the mark is past the dedup check, its
\* expired entry removed
C29_Witness ==
  /\ Entry("dup", Str("7")) \in log
  /\ ssePc = "find"
  /\ reads = 2
  /\ Truthy(hData.leadId)
  /\ JsString(hData.leadId) = "7"
  /\ markedAt["7"] # 0
  /\ now - markedAt["7"] = 20 * 1000
  /\ "7" \notin DOMAIN recentLeads

\* C31: parser state does not leak across a reconnect.  While no connection
\* is being read (disconnected or connecting) the accumulation buffer holds
\* nothing, and a connection starts reading with an empty buffer, so the
\* partial frame a connection leaves behind is never joined with data of the
\* next one.  In particular a read after which the frame data:{A}, delivered
\* as "data:{A}\n" and "\n", is handled is a read of the connection whose
\* buffer ended with that partial frame.
C31_NoLeakAcrossReconnect ==
  /\ [](ssePc \in {"idle", "fetch"} => buffer = << >>)
  /\ [][(ssePc = "fetch" /\ ssePc' = "read") => buffer' = << >>]_vars
  /\ [][ (reads' = reads + 1 /\ ssePc' = "find" /\ hFrame' = <<"data:", "{A}">>)
         => /\ ssePc = "read"
            /\ Len(buffer) >= 3
            /\ SubSeq(buffer, Len(buffer) - 2, Len(buffer)) = <<"data:", "{A}", NL>> ]_vars

\* a second connection is being read after the first one ended cleanly; two
\* chunks were read in all, the buffer holds the lone line end of the second
\* and no frame was ever handled
C31_Witness ==
  /\ ssePc = "read"
  /\ reads = 2
  /\ lastEnd = "eof"
  /\ conns = 1
  /\ buffer = <<NL>>
  /\ log = {}

\* C32: once a /logout-token request for a token has been answered, the
\* token is no dispatch target of any tenant until a /register-token request
\* for it is received, whatever background upserts of earlier
\* /register-token requests are still outstanding.
C32_LogoutSticks ==
  \A t \in loggedOut : \A c \in Tenants :
    t \notin Range(TargetsOf(TokenFind(store, c)))

====
